---- MODULE Spec2Model ----
(***************************************************************************)
(* Model of limix/stats/kinship.py: linear_kinship and gower_norm.         *)
(*                                                                         *)
(* Arrays are records [shape, data] with data in row-major order.  Real    *)
(* numbers are exact rationals <<num, den>> in lowest terms with den > 0;  *)
(* the IEEE special values are the pairs with den = 0: <<1,0>> is +inf,    *)
(* <<-1,0>> is -inf and <<0,0>> is nan.                                    *)
(***************************************************************************)
EXTENDS Integers, Sequences, FiniteSets, TLC

VARIABLES lk, gw, ch, on, off

vars == <<lk, gw, ch, on, off>>

(* ------------------------------ bounds -------------------------------- *)
MaxN == 2          \* samples (rows of G, side of K)
MaxP == 2          \* features (columns of G) in the linear_kinship runs
MaxCols == 65      \* features in the chunk-boundary enumeration
GVals == {0, 1}    \* entries of G
OutVals == {0, 1}  \* entries of a caller-supplied out buffer
KVals == {-1, 0, 2}  \* entries of gower_norm's K

(* --------------------------- real arithmetic -------------------------- *)
Abs(x) == IF x < 0 THEN -x ELSE x

Sgn(x) == IF x < 0 THEN -1 ELSE IF x = 0 THEN 0 ELSE 1

Min(a, b) == IF a <= b THEN a ELSE b

RECURSIVE GCD(_, _)
GCD(a, b) == IF b = 0 THEN a ELSE GCD(b, a % b)

\* the value num/den as a float: lowest terms, or inf/nan when den = 0
R(num, den) ==
    IF den = 0 THEN <<Sgn(num), 0>>
    ELSE LET g == GCD(Abs(num), Abs(den))
         IN  <<(Sgn(den) * num) \div g, Abs(den) \div g>>

Float(k) == <<k, 1>>

NaN == <<0, 0>>

IsFinite(x) == x[2] # 0

RAdd(a, b) ==
    IF a[2] = 0 /\ b[2] = 0 THEN (IF a = b THEN a ELSE NaN)
    ELSE R(a[1] * b[2] + b[1] * a[2], a[2] * b[2])

RNeg(a) == <<-a[1], a[2]>>

RSub(a, b) == RAdd(a, RNeg(b))

RMul(a, b) == R(a[1] * b[1], a[2] * b[2])

\* 1 / b; 1 / 0.0 is +inf, 1 / inf is 0, 1 / nan is nan
Recip(b) ==
    IF b = NaN THEN NaN
    ELSE IF b[1] = 0 THEN <<1, 0>>
    ELSE <<Sgn(b[1]) * b[2], Abs(b[1])>>

RDiv(a, b) == RMul(a, Recip(b))

RECURSIVE RSum(_)
RSum(s) == IF Len(s) = 0 THEN Float(0) ELSE RAdd(Head(s), RSum(Tail(s)))

(* ------------------------------- arrays ------------------------------- *)
RECURSIVE Prod(_)
Prod(s) == IF Len(s) = 0 THEN 1 ELSE Head(s) * Prod(Tail(s))

\* Python's None and an unbound local name
None == [shape |-> <<-1>>, data |-> <<>>]

Unbound == [shape |-> <<-2>>, data |-> <<>>]

Ndim(A) == Len(A.shape)

\* A[r][c] of a 2-dimensional array, 1-based
At(A, r, c) == A.data[(r - 1) * A.shape[2] + c]

\* the rows x cols array whose entry (r, c) is f[r, c]
Matrix(rows, cols, f) ==
    [shape |-> <<rows, cols>>,
     data |-> [k \in 1..(rows * cols) |->
                  f[((k - 1) \div cols) + 1, ((k - 1) % cols) + 1]]]

\* numpy.zeros((n, n))
zeros(n) == Matrix(n, n, [r \in 1..n, c \in 1..n |-> Float(0)])

ArraysOf(shape, vals) ==
    {[shape |-> shape, data |-> d] :
        d \in [1..Prod(shape) -> {Float(v) : v \in vals}]}

(* --------------------------- linear_kinship --------------------------- *)
\* X.mean(0)[c]
ColMean(X, c) ==
    RDiv(RSum([r \in 1..X.shape[1] |-> At(X, r, c)]), Float(X.shape[1]))

\* (X - X.mean(0))[r][c]
Centered(X, r, c) == RSub(At(X, r, c), ColMean(X, c))

\* X.std(0)[c] ^ 2 of the centred X: the population variance (ddof = 0)
ColVar(X, c) ==
    RDiv(RSum([r \in 1..X.shape[1] |-> RMul(Centered(X, r, c), Centered(X, r, c))]),
         Float(X.shape[1]))

\* X.dot(X.T) of X centred, divided by X.std(0) and by sqrt(p).  The entry
\* (a, b) is the sum over the columns c of
\*   (x_ac - m_c) / (std_c * sqrt(p)) * (x_bc - m_c) / (std_c * sqrt(p)),
\* which is (x_ac - m_c) * (x_bc - m_c) / (var_c * p); a constant column
\* gives 0 / 0 = nan.
StandardizedGram(X, p) ==
    Matrix(X.shape[1], X.shape[1],
           [a \in 1..X.shape[1], b \in 1..X.shape[1] |->
               RSum([c \in 1..X.shape[2] |->
                       RDiv(RMul(Centered(X, a, c), Centered(X, b, c)),
                            RMul(ColVar(X, c), Float(p)))])])

\* out += M for a 2-dimensional M: numpy broadcasts M over out, and raises
\* ValueError when M does not broadcast to out's shape
CanAddInto(out, M) ==
    /\ Ndim(out) >= 2
    /\ out.shape[Ndim(out) - 1] = M.shape[1] \/ M.shape[1] = 1
    /\ out.shape[Ndim(out)] = M.shape[2] \/ M.shape[2] = 1

AddInto(out, M) ==
    LET d1 == out.shape[Ndim(out) - 1]
        d2 == out.shape[Ndim(out)]
        row(k) == IF M.shape[1] = 1 THEN 1 ELSE (((k - 1) \div d2) % d1) + 1
        col(k) == IF M.shape[2] = 1 THEN 1 ELSE ((k - 1) % d2) + 1
    IN  [out EXCEPT !.data =
            [k \in 1..Len(out.data) |-> RAdd(out.data[k], At(M, row(k), col(k)))]]

\* range(k)
range(k) == [j \in 1..k |-> j - 1]

\* an enabled progress bar that consumes the first item itself
tqdmDropsFirst(iterable, disable) ==
    IF disable \/ Len(iterable) = 0 THEN iterable ELSE Tail(iterable)

\* tqdm(iterable, disable): the items the wrapped iterable yields, in order
tqdm(iterable, disable) == iterable

\* nsteps = min(30, p)
Nsteps(p) == Min(30, p)

\* start = i * (p // nsteps)
ChunkStart(i, p, nsteps) == i * (p \div nsteps)

\* stop = min(start + p // nsteps, p)
ChunkStop(start, p, nsteps) == Min(start + (p \div nsteps), p)

\* the frame of a call linear_kinship(G, out, progress); heap holds the
\* caller's buffer (K0) and the buffer the call allocates (fresh), out and
\* ret are references into it; out0 is the content of out at the call.
\* bar is the progress bar's item counter (tqdm.n) and shown the number of
\* times the bar was written to the progress stream.
LKCall(G, outArg, progress) ==
    [pc |-> "unpack", G |-> G, progress |-> progress,
     heap |-> [K0 |-> outArg, fresh |-> None], out0 |-> outArg,
     out |-> IF outArg = None THEN "None" ELSE "K0",
     n |-> -1, p |-> -1, nsteps |-> -1, it |-> <<>>, i |-> -1,
     start |-> -1, stop |-> -1, X |-> Unbound, bar |-> 0, shown |-> 0,
     ret |-> "None", exc |-> "None"]

\* (n, p) = G.shape
UnpackStep(s) ==
    IF Ndim(s.G) = 2
    THEN [s EXCEPT !.n = s.G.shape[1], !.p = s.G.shape[2], !.pc = "alloc"]
    ELSE [s EXCEPT !.pc = "raised", !.exc = "ValueError"]

\* if out is None: out = zeros((n, n))
AllocStep(s) ==
    IF s.out = "None"
    THEN [s EXCEPT !.heap.fresh = zeros(s.n), !.out = "fresh", !.pc = "nsteps"]
    ELSE [s EXCEPT !.pc = "nsteps"]

NstepsStep(s) == [s EXCEPT !.nsteps = Nsteps(s.p), !.pc = "iter"]

\* the bar is written once more when the iteration ends, by exhaustion or
\* by an exception that leaves the loop
BarClosed(s) == IF s.progress THEN s.shown + 1 ELSE s.shown

\* tqdm(range(nsteps), disable=not progress); an enabled bar is written
\* once when it is created
IterStep(s) ==
    [s EXCEPT !.it = tqdm(range(s.nsteps), ~s.progress),
              !.shown = IF s.progress THEN 1 ELSE 0, !.pc = "for"]

\* for i in ...: the next index, or the end of the loop.  An enabled bar
\* counts an item when the loop comes back after it (yield obj; n += 1), so
\* the item of an iteration that raises is never counted.
ForStep(s) ==
    LET counted == IF s.progress /\ s.i >= 0 THEN s.bar + 1 ELSE s.bar
    IN  IF Len(s.it) = 0
        THEN [s EXCEPT !.bar = counted, !.shown = BarClosed(s), !.pc = "return"]
        ELSE [s EXCEPT !.i = Head(s.it), !.it = Tail(s.it), !.bar = counted,
                       !.pc = "bounds"]

BoundsStep(s) ==
    LET start == ChunkStart(s.i, s.p, s.nsteps)
    IN  [s EXCEPT !.start = start, !.stop = ChunkStop(start, s.p, s.nsteps),
                  !.pc = "body"]

\* X = X - X.mean(0); X /= X.std(0); X /= sqrt(p); out += X.dot(X.T).
\* X is a local name that nothing binds before it is read, so the read
\* raises UnboundLocalError.  Were X bound, it would be rebound to its
\* standardized form, which standardizes to itself: the frame keeps the
\* array whose standardization X is.
BodyStep(s) ==
    IF s.X = Unbound
    THEN [s EXCEPT !.pc = "raised", !.exc = "UnboundLocalError",
                   !.shown = BarClosed(s)]
    ELSE LET gram == StandardizedGram(s.X, s.p)
         IN  IF CanAddInto(s.heap[s.out], gram)
             THEN [s EXCEPT !.heap[s.out] = AddInto(s.heap[s.out], gram),
                            !.pc = "for"]
             ELSE [s EXCEPT !.pc = "raised", !.exc = "ValueError",
                            !.shown = BarClosed(s)]

\* return out
ReturnStep(s) == [s EXCEPT !.ret = s.out, !.pc = "returned"]

LKTerminal(s) == s.pc \in {"returned", "raised"}

\* one statement of the call
LKStep(s) ==
    CASE s.pc = "unpack" -> UnpackStep(s)
      [] s.pc = "alloc" -> AllocStep(s)
      [] s.pc = "nsteps" -> NstepsStep(s)
      [] s.pc = "iter" -> IterStep(s)
      [] s.pc = "for" -> ForStep(s)
      [] s.pc = "bounds" -> BoundsStep(s)
      [] s.pc = "body" -> BodyStep(s)
      [] s.pc = "return" -> ReturnStep(s)
      [] OTHER -> s

GInputs ==
    UNION {ArraysOf(<<n, p>>, GVals) : n \in 1..MaxN, p \in 0..MaxP}
        \cup ArraysOf(<<MaxN>>, {0}) \cup ArraysOf(<<1, 1, MaxN>>, {0})

\* the a x b buffers whose row r is filled with one value of vals
RowFilled(a, b, vals) ==
    {Matrix(a, b, [r \in 1..a, c \in 1..b |-> Float(v[r])]) : v \in [1..a -> vals]}

\* out: absent, a 2-dimensional buffer (symmetric or not, n x n or not), or
\* a buffer of another rank
OutInputs ==
    {None} \cup UNION {RowFilled(a, b, OutVals) : a \in 1..MaxN, b \in 1..MaxN}
        \cup ArraysOf(<<MaxN>>, {0}) \cup ArraysOf(<<2, 1, 1>>, {0})

Idle == [pc |-> "idle"]

Unpack == lk.pc = "unpack" /\ lk' = UnpackStep(lk) /\ UNCHANGED <<gw, ch, on, off>>

Alloc == lk.pc = "alloc" /\ lk' = AllocStep(lk) /\ UNCHANGED <<gw, ch, on, off>>

ComputeNsteps == lk.pc = "nsteps" /\ lk' = NstepsStep(lk) /\ UNCHANGED <<gw, ch, on, off>>

Iter == lk.pc = "iter" /\ lk' = IterStep(lk) /\ UNCHANGED <<gw, ch, on, off>>

For == lk.pc = "for" /\ lk' = ForStep(lk) /\ UNCHANGED <<gw, ch, on, off>>

Bounds == lk.pc = "bounds" /\ lk' = BoundsStep(lk) /\ UNCHANGED <<gw, ch, on, off>>

Body == lk.pc = "body" /\ lk' = BodyStep(lk) /\ UNCHANGED <<gw, ch, on, off>>

Return == lk.pc = "return" /\ lk' = ReturnStep(lk) /\ UNCHANGED <<gw, ch, on, off>>

(* ----------------------------- gower_norm ----------------------------- *)
\* K.trace()
Trace(K) == RSum([r \in 1..Min(K.shape[1], K.shape[2]) |-> At(K, r, r)])

\* K.mean(0).sum()
ColMeanSum(K) == RSum([c \in 1..K.shape[2] |-> ColMean(K, c)])

\* K.trace() - K.mean(0).sum()
GowerDen(K) == RSub(Trace(K), ColMeanSum(K))

\* c = (K.shape[0] - 1) / (K.trace() - K.mean(0).sum()) with K.shape[0] - 1
\* replaced by K.shape[0]
GowerCWrongNumerator(K) == RDiv(Float(K.shape[1]), GowerDen(K))

\* c = (K.shape[0] - 1) / (K.trace() - K.mean(0).sum())
GowerC(K) == RDiv(Float(K.shape[1] - 1), GowerDen(K))

\* c * A, elementwise
Scale(c, A) == [A EXCEPT !.data = [k \in 1..Len(A.data) |-> RMul(c, A.data[k])]]

\* the frame of a call gower_norm(K, out); heap holds the caller's K, the
\* caller's other buffer B and the array the call allocates (fresh); out is
\* "None", "K" (out is K itself) or "B"; K0 is the content of K at the call
GowerCall(K, B, out) ==
    [pc |-> "coef", heap |-> [K |-> K, B |-> B, fresh |-> None], K0 |-> K,
     out |-> out, c |-> Float(0), ret |-> "noreturn"]

GowerCoefStep(s) == [s EXCEPT !.c = GowerC(s.heap.K), !.pc = "test"]

\* if out is None: return c * K
GowerReturnStep(s) ==
    [s EXCEPT !.heap.fresh = Scale(s.c, s.heap.K), !.ret = "fresh",
              !.pc = "returned"]

\* copyto(out, K)
GowerCopyStep(s) == [s EXCEPT !.heap[s.out] = s.heap.K, !.pc = "scale"]

\* out *= c applied to K instead of out
GowerScaleStepWrongBuffer(s) ==
    [s EXCEPT !.heap.K = Scale(s.c, s.heap.K), !.ret = "None", !.pc = "returned"]

\* out *= c, then the function ends and returns None
GowerScaleStep(s) ==
    [s EXCEPT !.heap[s.out] = Scale(s.c, s.heap[s.out]), !.ret = "None",
              !.pc = "returned"]

\* numpy.ones(shape): the content of the caller's buffer B at the call
ones(rows, cols) == Matrix(rows, cols, [r \in 1..rows, c \in 1..cols |-> Float(1)])

KInputs == UNION {ArraysOf(<<n, n>>, KVals) : n \in 1..MaxN}

GowerCoef == gw.pc = "coef" /\ gw' = GowerCoefStep(gw) /\ UNCHANGED <<lk, ch, on, off>>

GowerReturn ==
    /\ gw.pc = "test" /\ gw.out = "None"
    /\ gw' = GowerReturnStep(gw) /\ UNCHANGED <<lk, ch, on, off>>

GowerCopy ==
    /\ gw.pc = "test" /\ gw.out # "None"
    /\ gw' = GowerCopyStep(gw) /\ UNCHANGED <<lk, ch, on, off>>

GowerScale == gw.pc = "scale" /\ gw' = GowerScaleStep(gw) /\ UNCHANGED <<lk, ch, on, off>>

(* ------------------- the module: one call of either -------------------- *)
InitLK ==
    /\ lk \in {LKCall(G, o, b) : G \in GInputs, o \in OutInputs, b \in BOOLEAN}
    /\ gw = Idle

InitGower ==
    /\ lk = Idle
    /\ \E K \in KInputs :
         \/ gw = GowerCall(K, None, "None")
         \/ gw = GowerCall(K, None, "K")
         \/ gw = GowerCall(K, ones(K.shape[1], K.shape[2]), "B")

Init == (InitLK \/ InitGower) /\ ch = Idle /\ on = Idle /\ off = Idle

Next ==
    \/ Unpack \/ Alloc \/ ComputeNsteps \/ Iter \/ For \/ Bounds \/ Body \/ Return
    \/ GowerCoef \/ GowerReturn \/ GowerCopy \/ GowerScale

Spec == Init /\ [][Next]_vars

(* ------------- chunk boundaries as a function of (p, i) --------------- *)
\* The boundary expressions of lines 29, 32 and 33 evaluated for a feature
\* count p and one index i of range(nsteps): nsteps first, then start and
\* stop for the index.
BoundaryInput(p) ==
    [pc |-> "nsteps", p |-> p, nsteps |-> -1, i |-> -1, start |-> -1, stop |-> -1]

BoundaryNsteps ==
    /\ ch.pc = "nsteps"
    /\ ch' = [ch EXCEPT !.nsteps = Nsteps(ch.p), !.pc = "index"]
    /\ UNCHANGED <<lk, gw, on, off>>

BoundaryAt ==
    /\ ch.pc = "index"
    /\ \E i \in 0..(ch.nsteps - 1) :
         LET start == ChunkStart(i, ch.p, ch.nsteps)
         IN  ch' = [ch EXCEPT !.i = i, !.start = start,
                              !.stop = ChunkStop(start, ch.p, ch.nsteps),
                              !.pc = "done"]
    /\ UNCHANGED <<lk, gw, on, off>>

InitChunks ==
    /\ ch \in {BoundaryInput(p) : p \in 1..MaxCols}
    /\ lk = Idle /\ gw = Idle /\ on = Idle /\ off = Idle

NextChunks == BoundaryNsteps \/ BoundaryAt

SpecChunks == InitChunks /\ [][NextChunks]_vars

(* ------------- two calls that differ in the progress flag -------------- *)
\* The same call run with progress=True (on) and progress=False (off),
\* statement by statement.
PairStep ==
    /\ ~(LKTerminal(on) /\ LKTerminal(off))
    /\ on' = LKStep(on) /\ off' = LKStep(off)
    /\ UNCHANGED <<lk, gw, ch>>

InitProgress ==
    /\ \E G \in GInputs, o \in OutInputs :
         on = LKCall(G, o, TRUE) /\ off = LKCall(G, o, FALSE)
    /\ lk = Idle /\ gw = Idle /\ ch = Idle

NextProgress == PairStep

SpecProgress == InitProgress /\ [][NextProgress]_vars

(* ----------------------------- properties ------------------------------ *)
Symmetric(A) ==
    /\ Ndim(A) = 2 /\ A.shape[1] = A.shape[2]
    /\ \A a \in 1..A.shape[1], b \in 1..A.shape[1] : At(A, a, b) = At(A, b, a)

NoConstantColumn(G) == \A c \in 1..G.shape[2] : ColVar(G, c) # Float(0)

\* Z * Z^T for Z the whole of G standardized column by column and divided
\* by sqrt(p)
OneShotKinship(G) == StandardizedGram(G, G.shape[2])

\* C1: a call without out on a 2-dimensional G with p >= 1 and no constant
\* column returns the one-shot kinship Z * Z^T of the whole of G.
C1_ReturnsOneShotKinship ==
    (/\ LKTerminal(lk) /\ Ndim(lk.G) = 2 /\ lk.G.shape[2] >= 1
     /\ NoConstantColumn(lk.G) /\ lk.out0 = None)
    => (/\ lk.pc = "returned" /\ lk.ret = "fresh"
        /\ lk.heap.fresh = OneShotKinship(lk.G))

\* C2: a call with an n x n buffer K0 returns K0 itself, holding its initial
\* content plus the kinship of G; without out the accumulator starts as the
\* n x n zero matrix.
C2_AccumulatesIntoOut ==
    /\ (/\ LKTerminal(lk) /\ Ndim(lk.G) = 2 /\ lk.out0 # None
        /\ lk.out0.shape = <<lk.G.shape[1], lk.G.shape[1]>>)
       => (/\ lk.pc = "returned" /\ lk.ret = "K0"
           /\ lk.heap.K0 = AddInto(lk.out0, OneShotKinship(lk.G)))
    /\ (lk.pc = "nsteps" /\ lk.out0 = None)
       => (lk.out = "fresh" /\ lk.heap.fresh = zeros(lk.n))

\* C3: a call whose G is not 2-dimensional, or whose out has a shape other
\* than (n, n) (G within the contract p >= 1), ends in a shape error and
\* returns nothing.
C3_ShapeErrors ==
    (/\ LKTerminal(lk)
     /\ \/ Ndim(lk.G) # 2
        \/ /\ lk.G.shape[2] >= 1
           /\ lk.out0 # None
           /\ lk.out0.shape # <<lk.G.shape[1], lk.G.shape[1]>>)
    => (lk.pc = "raised" /\ lk.exc = "ValueError")

\* C4: the accumulator of a call without out, or with a symmetric n x n
\* out, is symmetric before the first chunk and after every chunk's Gram
\* matrix has been added, and the call (G within the contract p >= 1) ends
\* by returning that symmetric matrix.
C4_SymmetricThroughChunks ==
    /\ (lk.pc # "idle" /\ lk.out = "fresh") => Symmetric(lk.heap.fresh)
    /\ (lk.pc # "idle" /\ lk.out = "K0" /\ Symmetric(lk.out0))
       => Symmetric(lk.heap.K0)
    /\ (/\ LKTerminal(lk) /\ Ndim(lk.G) = 2 /\ lk.G.shape[2] >= 1
        /\ \/ lk.out0 = None
           \/ Symmetric(lk.out0) /\ lk.out0.shape[1] = lk.G.shape[1])
       => (/\ lk.pc = "returned" /\ lk.ret = lk.out
           /\ Symmetric(lk.heap[lk.ret]))

GowerDenNonZero(K) == IsFinite(GowerDen(K)) /\ GowerDen(K) # Float(0)

\* B = c * K entry by entry, with c = (n - 1) / den cross-multiplied
IsGowerScaled(B, K) ==
    /\ B.shape = K.shape
    /\ \A k \in 1..Len(K.data) :
         RMul(B.data[k], GowerDen(K)) = RMul(Float(K.shape[1] - 1), K.data[k])

\* C5: with a non-zero denominator, gower_norm(K) returns a new array equal
\* to c * K and leaves K unchanged; gower_norm(K, out=B) with B distinct from
\* K leaves B equal to c * K and K unchanged and returns None.
C5_GowerFrame ==
    (gw.pc = "returned" /\ GowerDenNonZero(gw.K0))
    => /\ gw.out = "None"
          => (/\ gw.ret = "fresh" /\ IsGowerScaled(gw.heap.fresh, gw.K0)
              /\ gw.heap.K = gw.K0)
       /\ gw.out = "B"
          => (/\ gw.ret = "None" /\ IsGowerScaled(gw.heap.B, gw.K0)
              /\ gw.heap.K = gw.K0)

\* a call with out=B has returned with B a proper rescaling of K
C5_Witness ==
    /\ gw.pc = "returned" /\ gw.out = "B" /\ GowerDenNonZero(gw.K0)
    /\ gw.heap.B # gw.K0 /\ gw.heap.K = gw.K0 /\ gw.ret = "None"

\* the array that holds the normalized matrix when the call has returned
GowerResult(s) == IF s.out = "None" THEN s.heap.fresh ELSE s.heap[s.out]

\* C6: with a non-zero denominator the normalized K' has
\* (n - 1) / (trace(K') - sum of the column means of K') = 1, and
\* normalizing K' again gives K'.
C6_GowerIdempotent ==
    (gw.pc = "returned" /\ GowerDenNonZero(gw.K0))
    => LET Kn == GowerResult(gw)
       IN  /\ RDiv(Float(Kn.shape[1] - 1), RSub(Trace(Kn), ColMeanSum(Kn)))
                = Float(1)
           /\ Scale(GowerC(Kn), Kn) = Kn

\* a call has returned a matrix that differs from its input
C6_Witness ==
    /\ gw.pc = "returned" /\ gw.out = "None" /\ GowerDenNonZero(gw.K0)
    /\ gw.heap.fresh # gw.K0

\* the frame without what the progress flag is allowed to change
Observable(s) == [s EXCEPT !.progress = FALSE, !.bar = 0, !.shown = 0]

Slice(G, start, stop) ==
    Matrix(G.shape[1], stop - start,
           [r \in 1..G.shape[1], c \in 1..(stop - start) |-> At(G, r, start + c)])

\* C8: whenever the loop body is about to standardize X, X is the slice
\* G[:, start:stop] of the current chunk.
C8_ResliceEachChunk ==
    lk.pc = "body" => lk.X = Slice(lk.G, lk.start, lk.stop)

\* C9: the chunks partition the columns 0 .. p-1: at most 30, each
\* non-empty, the first starting at 0, each next one starting where this one
\* stops (so they are disjoint), and the last one stopping at p, taking the
\* remainder.
C9_ChunksPartition ==
    ch.pc = "done"
    => /\ ch.nsteps >= 1 /\ ch.nsteps <= 30
       /\ ch.start < ch.stop
       /\ ch.i = 0 => ch.start = 0
       /\ \A j \in (ch.i + 1)..(ch.nsteps - 1) :
            /\ ChunkStart(j, ch.p, ch.nsteps) >= ch.stop
            /\ j = ch.i + 1 => ChunkStart(j, ch.p, ch.nsteps) = ch.stop
       /\ ch.i = ch.nsteps - 1 => ch.stop = ch.p

\* C10: the clamp never binds: in every iteration chunk i ends at
\* (i + 1) * (p // nsteps) <= p and has width p // nsteps >= 1, and the loop
\* of a call (G 2-dimensional, p >= 1) runs exactly min(30, p) iterations.
C10_ClampNeverBinds ==
    /\ lk.pc = "body"
       => LET w == lk.p \div (IF lk.p < 30 THEN lk.p ELSE 30)
          IN  /\ lk.stop = (lk.i + 1) * w
              /\ lk.stop <= lk.p
              /\ lk.stop - lk.start = w
              /\ w >= 1
    /\ (LKTerminal(lk) /\ Ndim(lk.G) = 2 /\ lk.G.shape[2] >= 1)
       => lk.i + 1 = (IF lk.p < 30 THEN lk.p ELSE 30)

====
